---- MODULE Spec2Model ----
(***************************************************************************)
(* moonchart tear sheet (src/moonchart/tearsheet.py): the Monte Carlo      *)
(* simulator, the lazily filled statistics cache of Performance and        *)
(* AggregatePerformance as the tear sheets use it, and the branching on    *)
(* the optional tables (pnl, commissions, net and absolute exposures).     *)
(*                                                                         *)
(* A Series is [index, values], a DataFrame is [index, cols] with one      *)
(* sequence of values per column. Returns are integers in units of 1/Unit  *)
(* (2 stands for 2/Unit); a cumulative return is the exact fraction        *)
(* [num, den].                                                             *)
(***************************************************************************)
EXTENDS Integers, Sequences, FiniteSets, TLC

MaxLen == 3        \* rows (days) of the returns table
MaxCols == 2       \* columns (securities/strategies) of the returns table
MaxCells == 6      \* rows * columns of the returns table
MaxN == 2          \* Monte Carlo simulations asked for
MaxCalls == 2      \* calls a user makes on one Tearsheet
Unit == 10         \* a return r stands for r/Unit
DaysPerYear == 2   \* dates d with the same d \div DaysPerYear share a year

Values == {-1, 2}
None == "None"

VARIABLES
    performance,      \* the Performance instance handed to the tear sheet
    agg_performance,  \* the AggregatePerformance instance in use
    todo,             \* the calls still to run, innermost first
    calls,            \* calls the user has made
    call,             \* the user's current (or last) call
    out,              \* what the current call has put on figures
    reads,            \* reads of cached statistics made by the current call
    cagr_inputs,      \* cumulative series the current call handed to get_cagr
    mc,               \* <<>> or <<locals of the last montecarlo_simulate run>>
    error             \* exception that ended the current call, or None

vars == <<performance, agg_performance, todo, calls, call, out, reads,
          cagr_inputs, mc, error>>

---------------------------------------------------------------------------
(* Sequences and tables *)

Range(s) == {s[i] : i \in DOMAIN s}

RECURSIVE SeqSum(_)
SeqSum(s) == IF s = <<>> THEN 0 ELSE Head(s) + SeqSum(Tail(s))

\* The multiset of the values of a sequence: value |-> number of occurrences.
Multiset(s) == [v \in Range(s) |-> Cardinality({i \in DOMAIN s : s[i] = v})]

IsDataFrame(x) == "cols" \in DOMAIN x

\* A plausible slip: DataFrame.max(axis=1), the largest value of each row.
max_axis1(df) ==
    [index |-> df.index,
     values |-> [d \in DOMAIN df.index |->
                    CHOOSE m \in {df.cols[c][d] : c \in DOMAIN df.cols} :
                        \A c \in DOMAIN df.cols : df.cols[c][d] <= m]]

\* DataFrame.sum(axis=1): the row-wise sum across the columns, as a Series.
sum_axis1(df) ==
    [index |-> df.index,
     values |-> [d \in DOMAIN df.index |->
                    SeqSum([c \in DOMAIN df.cols |-> df.cols[c][d]])]]

Perms(n) == {p \in [1..n -> 1..n] : \A i, j \in 1..n : p[i] = p[j] => i = j}

\* A plausible slip: drawing with replacement (np.random.choice).
choice_with_replacement(x) == [DOMAIN x -> Range(x)]

\* np.random.permutation(x): every rearrangement of x can come out.
permutation(x) == {[i \in DOMAIN x |-> x[p[i]]] : p \in Perms(Len(x))}

\* A plausible slip: np.random.shuffle, which rearranges its argument.
shuffle_in_place(x, shuffled) == shuffled

\* What np.random.permutation(x) leaves in x: it shuffles a copy.
permutation_leaves(x, shuffled) == x

RECURSIVE ColumnChoices(_)
\* Every way of picking one sequence from each set of a sequence of sets.
ColumnChoices(sets) ==
    IF sets = <<>> THEN {<<>>}
    ELSE {<<h>> \o t : h \in Head(sets), t \in ColumnChoices(Tail(sets))}

\* A plausible slip: apply(..., axis=1), which rearranges each row across
\* the columns.
apply_permutation_axis1(df) ==
    LET row(d) == [c \in DOMAIN df.cols |-> df.cols[c][d]]
        rows == ColumnChoices([d \in DOMAIN df.index |-> permutation(row(d))])
    IN {[c \in DOMAIN df.cols |-> [d \in DOMAIN df.index |-> r[d][c]]] : r \in rows}

\* returns.apply(np.random.permutation): each column rearranged on its own;
\* the result is what the columns of the new DataFrame can be.
apply_permutation(df) ==
    ColumnChoices([c \in DOMAIN df.cols |-> permutation(df.cols[c])])

---------------------------------------------------------------------------
(* perf.py: series utilities and the cache (not under src/) *)

\* with_baseline: one more period, one interval before the first date, of
\* zero return in every column.
with_baseline(x) ==
    LET idx == <<x.index[1] - 1>> \o x.index
    IN IF IsDataFrame(x)
       THEN [index |-> idx, cols |-> [c \in DOMAIN x.cols |-> <<0>> \o x.cols[c]]]
       ELSE [index |-> idx, values |-> <<0>> \o x.values]

RECURSIVE CumProd(_)
CumProd(col) ==
    IF col = <<>> THEN <<>>
    ELSE LET before == CumProd(SubSeq(col, 1, Len(col) - 1))
             last == IF before = <<>> THEN [num |-> 1, den |-> 1]
                     ELSE before[Len(before)]
         IN Append(before, [num |-> last.num * (Unit + col[Len(col)]),
                            den |-> last.den * Unit])

\* get_cum_returns: cum[t] = product over i <= t of (1 + returns[i]).
get_cum_returns(x) ==
    IF IsDataFrame(x)
    THEN [index |-> x.index, cols |-> [c \in DOMAIN x.cols |-> CumProd(x.cols[c])]]
    ELSE [index |-> x.index, values |-> CumProd(x.values)]


\* What the cache holds once filled: the cumulative returns with baseline and
\* the statistics, each a function of the instance's returns alone.
Statistics(returns) ==
    LET cum == get_cum_returns(with_baseline(returns))
    IN [cum_returns |-> cum,
        cagr |-> [stat |-> "cagr", of |-> cum],
        sharpe |-> [stat |-> "sharpe", of |-> returns],
        max_drawdown |-> [stat |-> "max_drawdown", of |-> cum]]

\* Mutation: no "already filled" guard, every call computes again.
fill_performance_cache_unguarded(p) ==
    [p EXCEPT !.cache = <<Statistics(p.returns)>>, !.computations = @ + 1]

\* fill_performance_cache: computes on the first call, a no-op afterwards.
fill_performance_cache(p) ==
    IF p.cache # <<>> THEN p
    ELSE [p EXCEPT !.cache = <<Statistics(p.returns)>>, !.computations = @ + 1]

Filled(p) == p.cache # <<>>

\* Performance(returns, pnl=..., commissions=..., net_exposures=..., abs_exposures=...)
Performance(returns, pnl, commissions, net_exposures, abs_exposures) ==
    [returns |-> returns, pnl |-> pnl, commissions |-> commissions,
     net_exposures |-> net_exposures, abs_exposures |-> abs_exposures,
     cache |-> <<>>, computations |-> 0]

\* AggregatePerformance(performance): every table present on the source is
\* summed across the columns, an absent one stays absent; a fresh cache.
AggregatePerformance(p, id) ==
    LET reduced(t) == IF t = None THEN None ELSE "Series"
    IN [id |-> id, returns |-> sum_axis1(p.returns),
        pnl |-> reduced(p.pnl), commissions |-> reduced(p.commissions),
        net_exposures |-> reduced(p.net_exposures),
        abs_exposures |-> reduced(p.abs_exposures),
        cache |-> <<>>, computations |-> 0]

---------------------------------------------------------------------------
(* montecarlo_simulate *)

\* One pass of the loop body on the local `returns`: the rearranged data,
\* the simulated aggregate series, and `returns` as the pass leaves it.
iteration(returns, preaggregate) ==
    IF preaggregate
    THEN {[returns |-> [returns EXCEPT !.values = permutation_leaves(@, v)],
           shuffled |-> [index |-> returns.index, values |-> v],
           sim_returns |-> [index |-> returns.index, values |-> v]]
          : v \in permutation(returns.values)}
    ELSE {[returns |-> [returns EXCEPT !.cols =
                           [c \in DOMAIN @ |-> permutation_leaves(@[c], cs[c])]],
           shuffled |-> [index |-> returns.index, cols |-> cs],
           sim_returns |-> sum_axis1([index |-> returns.index, cols |-> cs])]
          : cs \in apply_permutation(returns)}

RECURSIVE Iterations(_, _, _)
Iterations(returns, k, preaggregate) ==
    IF k <= 0
    THEN {[returns |-> returns, shuffled |-> <<>>, all_simulations |-> <<>>]}
    ELSE UNION {{[returns |-> it.returns,
                  shuffled |-> Append(before.shuffled, it.shuffled),
                  all_simulations |-> Append(before.all_simulations, it.sim_returns)]
                 : it \in iteration(before.returns, preaggregate)}
                : before \in Iterations(returns, k - 1, preaggregate)}

\* Mutation: one pass too many, range(n + 1).
simulate_once_more(returns, n, preaggregate) ==
    Iterations(returns, n + 1, preaggregate)

\* for i in range(n): ... all_simulations.append(sim_returns)
simulate(returns, n, preaggregate) == Iterations(returns, n, preaggregate)

\* pd.concat(all_simulations, axis=1): one column per series.
concat_axis1(series) ==
    [index |-> series[1].index, cols |-> [i \in DOMAIN series |-> series[i].values]]

montecarlo_simulate ==
    /\ todo # <<>>
    /\ Head(todo).fn = "montecarlo_simulate"
    /\ LET n == Head(todo).n
           preaggregate == Head(todo).preaggregate
           returns0 == IF preaggregate THEN sum_axis1(performance.returns)
                       ELSE performance.returns
       IN \E o \in simulate(returns0, n, preaggregate) :
            /\ performance' = [performance EXCEPT !.returns =
                                  IF preaggregate THEN @ ELSE o.returns]
            /\ IF o.all_simulations = <<>>
               THEN \* pd.concat of an empty list raises ValueError
                    /\ mc' = <<[n |-> n, preaggregate |-> preaggregate]>>
                    /\ error' = "ValueError"
                    /\ todo' = <<>>
                    /\ out' = out
               ELSE LET sim_returns == concat_axis1(o.all_simulations)
                        returns == IF preaggregate THEN o.returns
                                   ELSE sum_axis1(o.returns)
                    IN /\ mc' = <<[n |-> n, preaggregate |-> preaggregate,
                                   shuffled |-> o.shuffled,
                                   all_simulations |-> o.all_simulations,
                                   sim_returns |-> sim_returns,
                                   returns |-> returns,
                                   cum_sim_returns |->
                                       get_cum_returns(with_baseline(sim_returns)),
                                   cum_returns |->
                                       get_cum_returns(with_baseline(returns))]>>
                       /\ error' = error
                       /\ todo' = Tail(todo)
                       /\ out' = out \cup {<<"Montecarlo Simulation", "cum_sim_returns">>,
                                        <<"Montecarlo Simulation", "cum_returns">>}
    /\ UNCHANGED <<agg_performance, calls, call, reads, cagr_inputs>>

---------------------------------------------------------------------------
(* The user's calls *)

\* A call: the function, the instance it is given, and its arguments.
Frame(fn, on, n, n_is_none, preaggregate, exposures, annual) ==
    [fn |-> fn, performance |-> on, n |-> n, montecarlo_n_is_none |-> n_is_none,
     preaggregate |-> preaggregate,
     include_exposures_tearsheet |-> exposures,
     include_annual_breakdown_tearsheet |-> annual]

\* A call that takes only the instance.
Call(fn, on) == Frame(fn, on, 0, TRUE, TRUE, TRUE, TRUE)

Index(start, len) == [i \in 1..len |-> start + i - 1]

Shapes == {s \in (1..MaxLen) \X (1..MaxCols) : s[1] * s[2] <= MaxCells}

\* Returns tables whose values vary from day to day and column to column.
Tables ==
    UNION {{[index |-> Index(start, s[1]), cols |-> cols]
            : start \in 1..DaysPerYear, cols \in [1..s[2] -> [1..s[1] -> Values]]}
           : s \in Shapes}

\* Returns tables of MaxLen days from the first date on, with one value
\* throughout: the tear sheets branch on the number of columns and on the
\* optional tables, not on how the returns vary.
FlatTables ==
    {[index |-> Index(1, MaxLen),
      cols |-> [c \in 1..ncols |-> [d \in 1..MaxLen |-> v]]]
     : ncols \in 1..MaxCols, v \in Values}

Optional == {None, "DataFrame"}

InitWith(tables, optional) ==
    /\ \E returns \in tables, pnl, commissions, net_exposures, abs_exposures \in optional :
         /\ performance = Performance(returns, pnl, commissions, net_exposures,
                                      abs_exposures)
         /\ agg_performance = AggregatePerformance(performance, 0)
    /\ todo = <<>>
    /\ calls = 0
    /\ call = Call("none", "none")
    /\ out = {}
    /\ reads = {}
    /\ cagr_inputs = {}
    /\ mc = <<>>
    /\ error = None

\* A call starts with the records of the previous call cleared.
Begin(fn, on, n, n_is_none, preaggregate, exposures, annual) ==
    /\ todo = <<>>
    /\ calls < MaxCalls
    /\ todo' = <<Frame(fn, on, n, n_is_none, preaggregate, exposures, annual)>>
    /\ call' = Frame(fn, on, n, n_is_none, preaggregate, exposures, annual)
    /\ calls' = calls + 1
    /\ out' = {}
    /\ reads' = {}
    /\ cagr_inputs' = {}
    /\ mc' = <<>>
    /\ error' = None
    /\ UNCHANGED <<performance, agg_performance>>

\* tearsheet.montecarlo_simulate(performance, n, preaggregate)
call_montecarlo_simulate ==
    \E n \in 0..MaxN, preaggregate \in BOOLEAN :
        Begin("montecarlo_simulate", "detail", n, FALSE, preaggregate, TRUE, TRUE)

InitMC == InitWith(Tables, {None})

NextMC == call_montecarlo_simulate \/ montecarlo_simulate

SpecMC == InitMC /\ [][NextMC]_vars

---------------------------------------------------------------------------
(* The tear sheets. A figure entry is <<figure, what is shown on it>>; a   *)
(* read is <<instance, statistic, whether the instance's cache was filled  *)
(* when it was read>>. Layout, titles and legends are left out.            *)

The(on) == IF on = "agg" THEN agg_performance ELSE performance

Read(on, stats) == {<<on, st, Filled(The(on))>> : st \in stats}

Truthy(n, n_is_none) == ~n_is_none /\ n # 0

\* Mutation: `if montecarlo_n is not None`.
create_full_tearsheet_body_not_none(p, f) ==
    <<Call("create_performance_tearsheet", "detail")>>
    \o (IF f.include_annual_breakdown_tearsheet
        THEN <<Call("create_annual_breakdown_tearsheet", "detail")>> ELSE <<>>)
    \o (IF f.include_exposures_tearsheet
           /\ (p.net_exposures # None \/ p.abs_exposures # None)
        THEN <<Call("create_exposures_tearsheet", "detail")>> ELSE <<>>)
    \o (IF ~f.montecarlo_n_is_none
        THEN <<Frame("montecarlo_simulate", "detail", f.n, FALSE, f.preaggregate,
                     TRUE, TRUE)>>
        ELSE <<>>)
    \o <<Call("_save_or_show", "none")>>

\* create_full_tearsheet, after agg_performance is made: the calls it makes.
create_full_tearsheet_body(p, f) ==
    <<Call("create_performance_tearsheet", "detail")>>
    \o (IF f.include_annual_breakdown_tearsheet
        THEN <<Call("create_annual_breakdown_tearsheet", "detail")>> ELSE <<>>)
    \o (IF f.include_exposures_tearsheet
           /\ (p.net_exposures # None \/ p.abs_exposures # None)
        THEN <<Call("create_exposures_tearsheet", "detail")>> ELSE <<>>)
    \o (IF Truthy(f.n, f.montecarlo_n_is_none)
        THEN <<Frame("montecarlo_simulate", "detail", f.n, FALSE, f.preaggregate,
                     TRUE, TRUE)>>
        ELSE <<>>)
    \o <<Call("_save_or_show", "none")>>

create_full_tearsheet ==
    /\ todo # <<>>
    /\ Head(todo).fn = "create_full_tearsheet"
    /\ agg_performance' = AggregatePerformance(performance, agg_performance.id + 1)
    /\ todo' = create_full_tearsheet_body(performance, Head(todo)) \o Tail(todo)
    /\ UNCHANGED <<performance, calls, call, out, reads, cagr_inputs, mc, error>>

create_performance_tearsheet_body(p, agg) ==
    LET show_details == Len(p.returns.cols) > 1
    IN <<Call("fill_performance_cache", "agg")>>
       \o (IF show_details THEN <<Call("fill_performance_cache", "detail")>> ELSE <<>>)
       \o <<Call("_create_agg_performance_textbox", "agg"),
            Call("_create_performance_plots", "agg")>>
       \o (IF agg.pnl # None /\ agg.commissions # None
           THEN <<Call("_create_gross_and_net_pnl_plot", "agg")>> ELSE <<>>)
       \o (IF show_details
           THEN <<Call("_create_performance_plots", "detail"),
                  Call("_create_detailed_performance_bar_charts", "detail")>>
           ELSE <<>>)

create_performance_tearsheet ==
    /\ todo # <<>>
    /\ Head(todo).fn = "create_performance_tearsheet"
    /\ todo' = create_performance_tearsheet_body(performance, agg_performance)
               \o Tail(todo)
    /\ UNCHANGED <<performance, agg_performance, calls, call, out, reads,
                   cagr_inputs, mc, error>>

\* Mutation: the details are shown without the detail instance being filled.
create_exposures_tearsheet_body_no_fill(p, agg) ==
    LET show_details == Len(p.returns.cols) > 1
    IN <<Call("fill_performance_cache", "agg"),
         Call("_create_agg_exposures_textbox", "agg"),
         Call("_create_exposures_plots", "agg")>>
       \o (IF show_details
           THEN <<Call("_create_exposures_plots", "detail"),
                  Call("_create_detailed_exposures_bar_charts", "detail")>>
           ELSE <<>>)

create_exposures_tearsheet_body(p, agg) ==
    LET show_details == Len(p.returns.cols) > 1
    IN <<Call("fill_performance_cache", "agg")>>
       \o (IF show_details THEN <<Call("fill_performance_cache", "detail")>> ELSE <<>>)
       \o <<Call("_create_agg_exposures_textbox", "agg"),
            Call("_create_exposures_plots", "agg")>>
       \o (IF show_details
           THEN <<Call("_create_exposures_plots", "detail"),
                  Call("_create_detailed_exposures_bar_charts", "detail")>>
           ELSE <<>>)

create_exposures_tearsheet ==
    /\ todo # <<>>
    /\ Head(todo).fn = "create_exposures_tearsheet"
    /\ todo' = create_exposures_tearsheet_body(performance, agg_performance)
               \o Tail(todo)
    /\ UNCHANGED <<performance, agg_performance, calls, call, out, reads,
                   cagr_inputs, mc, error>>

create_annual_breakdown_tearsheet_body(p, agg) ==
    LET show_details == Len(p.returns.cols) > 1
    IN <<Call("fill_performance_cache", "agg")>>
       \o (IF show_details THEN <<Call("fill_performance_cache", "detail")>> ELSE <<>>)
       \o <<Call("_create_annual_breakdown_plots", "agg")>>
       \o (IF show_details
           THEN <<Call("_create_annual_breakdown_plots", "detail")>> ELSE <<>>)

create_annual_breakdown_tearsheet ==
    /\ todo # <<>>
    /\ Head(todo).fn = "create_annual_breakdown_tearsheet"
    /\ todo' = create_annual_breakdown_tearsheet_body(performance, agg_performance)
               \o Tail(todo)
    /\ UNCHANGED <<performance, agg_performance, calls, call, out, reads,
                   cagr_inputs, mc, error>>

\* agg_performance.fill_performance_cache() / performance.fill_performance_cache()
call_fill_performance_cache ==
    /\ todo # <<>>
    /\ Head(todo).fn = "fill_performance_cache"
    /\ IF Head(todo).performance = "agg"
       THEN /\ agg_performance' = fill_performance_cache(agg_performance)
            /\ UNCHANGED performance
       ELSE /\ performance' = fill_performance_cache(performance)
            /\ UNCHANGED agg_performance
    /\ todo' = Tail(todo)
    /\ UNCHANGED <<calls, call, out, reads, cagr_inputs, mc, error>>

\* A method that only draws: it returns to its caller and changes neither
\* instance.
Step(fn) ==
    /\ todo # <<>>
    /\ Head(todo).fn = fn
    /\ todo' = Tail(todo)
    /\ UNCHANGED <<performance, agg_performance, calls, call, mc, error>>

\* The entries of the aggregate performance text box.
agg_performance_textbox_stats(agg) ==
    (IF agg.pnl # None THEN {"PNL"} ELSE {})
    \cup (IF agg.commissions # None THEN {"Commissions"} ELSE {})
    \cup {"CAGR", "Sharpe", "Max Drawdown"}

_create_agg_performance_textbox ==
    /\ Step("_create_agg_performance_textbox")
    /\ cagr_inputs' = cagr_inputs
    /\ out' = out \cup {<<"Aggregate Performance", k>> :
                           k \in agg_performance_textbox_stats(agg_performance)}
    /\ reads' = reads \cup Read(Head(todo).performance,
                                {"cagr", "sharpe", "max_drawdown"})

\* BaseTearsheet._create_performance_plots: the cumulative returns and the
\* drawdowns of the instance.
_create_performance_plots ==
    /\ Step("_create_performance_plots")
    /\ cagr_inputs' = cagr_inputs
    /\ out' = out \cup {<<"Cumulative Returns", Head(todo).performance>>,
                        <<"Drawdowns", Head(todo).performance>>}
    /\ reads' = reads \cup Read(Head(todo).performance, {"cum_returns", "drawdowns"})

_create_gross_and_net_pnl_plot ==
    /\ Step("_create_gross_and_net_pnl_plot")
    /\ cagr_inputs' = cagr_inputs
    /\ out' = out \cup {<<"Gross and Net PNL", "pnl">>,
                        <<"Gross and Net PNL", "gross pnl">>,
                        <<"Gross and Net PNL", "commissions">>}
    /\ reads' = reads

detailed_performance_bar_charts(p) ==
    (IF p.pnl # None
     THEN {<<"PNL (Details)", "pnl">>}
          \cup (IF p.commissions # None
                THEN {<<"PNL (Details)", "gross pnl">>,
                      <<"PNL (Details)", "commissions">>}
                ELSE {})
     ELSE {})
    \cup {<<"CAGR (Details)", "cagr">>, <<"Sharpe (Details)", "sharpe">>,
          <<"Max Drawdown (Details)", "max_drawdown">>}

_create_detailed_performance_bar_charts ==
    /\ Step("_create_detailed_performance_bar_charts")
    /\ cagr_inputs' = cagr_inputs
    /\ out' = out \cup detailed_performance_bar_charts(The(Head(todo).performance))
    /\ reads' = reads \cup Read(Head(todo).performance,
                                {"cagr", "sharpe", "max_drawdown"})

\* Mutation: the normalized CAGR is computed whenever either exposure table
\* is there.
agg_exposures_textbox_stats_either(agg) ==
    (IF agg.net_exposures # None THEN {"Avg Net Exposure"} ELSE {})
    \cup (IF agg.abs_exposures # None THEN {"Avg Absolute Exposure"} ELSE {})
    \cup (IF agg.net_exposures # None \/ agg.abs_exposures # None
          THEN {"Normalized CAGR (CAGR/Exposure)"} ELSE {})

\* The entries of the aggregate exposure text box.
agg_exposures_textbox_stats(agg) ==
    (IF agg.net_exposures # None THEN {"Avg Net Exposure"} ELSE {})
    \cup (IF agg.abs_exposures # None
          THEN {"Avg Absolute Exposure", "Normalized CAGR (CAGR/Exposure)"}
          ELSE {})

_create_agg_exposures_textbox ==
    /\ Step("_create_agg_exposures_textbox")
    /\ cagr_inputs' = cagr_inputs
    /\ out' = out \cup {<<"Aggregate Exposure", "text box">>}
                  \cup {<<"Aggregate Exposure", k>> :
                           k \in agg_exposures_textbox_stats(agg_performance)}
    /\ reads' = reads \cup
          (IF "Normalized CAGR (CAGR/Exposure)"
                 \in agg_exposures_textbox_stats(agg_performance)
           THEN Read(Head(todo).performance, {"cagr"}) ELSE {})

exposures_plots(p, on) ==
    (IF p.net_exposures # None THEN {<<"Net Exposures", on>>} ELSE {})
    \cup (IF p.abs_exposures # None THEN {<<"Absolute Exposures", on>>} ELSE {})

_create_exposures_plots ==
    /\ Step("_create_exposures_plots")
    /\ cagr_inputs' = cagr_inputs
    /\ out' = out \cup exposures_plots(The(Head(todo).performance),
                                       Head(todo).performance)
    /\ reads' = reads

detailed_exposures_bar_charts(p) ==
    (IF p.abs_exposures # None
     THEN {<<"Avg Absolute Exposure (Details)", "avg_abs_exposures">>} ELSE {})
    \cup (IF p.net_exposures # None
          THEN {<<"Avg Net Exposure (Details)", "avg_net_exposures">>} ELSE {})
    \cup (IF p.abs_exposures # None
          THEN {<<"Normalized CAGR (CAGR/Exposure) (Details)", "norm_cagrs">>}
          ELSE {})

_create_detailed_exposures_bar_charts ==
    /\ Step("_create_detailed_exposures_bar_charts")
    /\ cagr_inputs' = cagr_inputs
    /\ out' = out \cup detailed_exposures_bar_charts(The(Head(todo).performance))
    /\ reads' = reads \cup
          (IF The(Head(todo).performance).abs_exposures # None
           THEN Read(Head(todo).performance, {"cagr"}) ELSE {})

Year(date) == date \div DaysPerYear

Years(x) == {Year(x.index[i]) : i \in DOMAIN x.index}

\* One group of returns.groupby(returns.index.year): the rows of one year.
YearGroup(x, year) ==
    LET rows == {i \in DOMAIN x.index : Year(x.index[i]) = year}
        lo == CHOOSE i \in rows : \A j \in rows : i <= j
        hi == CHOOSE i \in rows : \A j \in rows : i >= j
    IN IF IsDataFrame(x)
       THEN [index |-> SubSeq(x.index, lo, hi),
             cols |-> [c \in DOMAIN x.cols |-> SubSeq(x.cols[c], lo, hi)]]
       ELSE [index |-> SubSeq(x.index, lo, hi), values |-> SubSeq(x.values, lo, hi)]

\* lambda x: performance.get_cagr(performance.get_cum_returns(x)): what
\* get_cagr is given for one year's returns x.
cagr_by_year_input(x) == get_cum_returns(x)

_create_annual_breakdown_plots ==
    /\ Step("_create_annual_breakdown_plots")
    /\ cagr_inputs' = cagr_inputs \cup
          {<<Head(todo).performance, year,
             cagr_by_year_input(YearGroup(The(Head(todo).performance).returns, year))>> :
              year \in Years(The(Head(todo).performance).returns)}
    /\ out' = out \cup {<<"CAGR by Year", Head(todo).performance>>,
                        <<"Sharpe by Year", Head(todo).performance>>}
    /\ reads' = reads

\* BaseTearsheet._save_or_show
_save_or_show ==
    /\ todo # <<>>
    /\ Head(todo).fn = "_save_or_show"
    /\ todo' = Tail(todo)
    /\ UNCHANGED <<performance, agg_performance, calls, call, out, reads,
                   cagr_inputs, mc, error>>

\* tearsheet.create_full_tearsheet(performance, include_exposures_tearsheet,
\* include_annual_breakdown_tearsheet, montecarlo_n, montecarlo_preaggregate)
call_create_full_tearsheet ==
    \E n \in 0..MaxN, n_is_none, preaggregate, exposures, annual \in BOOLEAN :
        /\ n_is_none => n = 0
        /\ Begin("create_full_tearsheet", "detail", n, n_is_none, preaggregate,
                 exposures, annual)

\* tearsheet.create_performance_tearsheet(performance, agg_performance) and
\* the two other tear sheets, called on the instances in use.
call_create_tearsheet ==
    \E fn \in {"create_performance_tearsheet", "create_annual_breakdown_tearsheet",
               "create_exposures_tearsheet"} :
        Begin(fn, "detail", 0, TRUE, TRUE, TRUE, TRUE)

Init == InitWith(FlatTables, Optional)

Next ==
    \/ call_create_full_tearsheet
    \/ call_create_tearsheet
    \/ create_full_tearsheet
    \/ create_performance_tearsheet
    \/ create_exposures_tearsheet
    \/ create_annual_breakdown_tearsheet
    \/ call_fill_performance_cache
    \/ _create_agg_performance_textbox
    \/ _create_performance_plots
    \/ _create_gross_and_net_pnl_plot
    \/ _create_detailed_performance_bar_charts
    \/ _create_agg_exposures_textbox
    \/ _create_exposures_plots
    \/ _create_detailed_exposures_bar_charts
    \/ _create_annual_breakdown_plots
    \/ montecarlo_simulate
    \/ _save_or_show

Spec == Init /\ [][Next]_vars

---------------------------------------------------------------------------
(* Monte Carlo: properties *)

Simulated == mc # <<>> /\ error = None

Aggregate == sum_axis1(performance.returns)

\* C1: with preaggregate=True every simulated series holds exactly the
\* multiset of daily values of the aggregate series (the row-wise sum of the
\* returns), whatever rearrangement was drawn.
C1_PreaggregateKeepsMultiset ==
    (Simulated /\ mc[1].preaggregate) =>
        \A i \in DOMAIN mc[1].all_simulations :
            /\ Len(mc[1].all_simulations[i].values) = Len(Aggregate.values)
            /\ Multiset(mc[1].all_simulations[i].values) = Multiset(Aggregate.values)

\* A preaggregated run of two simulations on a two-column table in which a
\* simulated series is a real rearrangement of the aggregate series.
C1_Witness ==
    /\ Simulated /\ mc[1].preaggregate /\ mc[1].n = 2
    /\ Len(performance.returns.cols) = 2
    /\ mc[1].all_simulations[1].values # Aggregate.values
    /\ mc[1].all_simulations[2].values = Aggregate.values

\* C2: with preaggregate=False every simulated series is the row-wise sum of
\* columns each of which holds exactly the multiset of values of the same
\* column of the returns.
C2_ColumnsKeepMultiset ==
    (Simulated /\ ~mc[1].preaggregate) =>
        \A i \in DOMAIN mc[1].all_simulations :
            /\ DOMAIN mc[1].shuffled[i].cols = DOMAIN performance.returns.cols
            /\ \A c \in DOMAIN performance.returns.cols :
                 /\ Len(mc[1].shuffled[i].cols[c]) = Len(performance.returns.cols[c])
                 /\ Multiset(mc[1].shuffled[i].cols[c])
                      = Multiset(performance.returns.cols[c])
            /\ \A d \in DOMAIN performance.returns.index :
                 mc[1].all_simulations[i].values[d]
                   = SeqSum([c \in DOMAIN performance.returns.cols |->
                                mc[1].shuffled[i].cols[c][d]])

\* A run without preaggregation in which one column came out as it was and
\* the other rearranged, and the multiset of the simulated aggregate values
\* is not that of the original aggregate values.
C2_Witness ==
    /\ Simulated /\ ~mc[1].preaggregate
    /\ Len(performance.returns.cols) = 2
    /\ mc[1].shuffled[1].cols[1] = performance.returns.cols[1]
    /\ mc[1].shuffled[1].cols[2] # performance.returns.cols[2]
    /\ Multiset(mc[1].all_simulations[1].values) # Multiset(Aggregate.values)

\* C3: a run with n >= 1 yields exactly n simulated series, each on the date
\* index of the returns and of their length, and one more series, the
\* unshuffled aggregate; with the baseline every one of the n + 1 cumulative
\* series is one longer than the returns.
C3_ExactlyNSimulations ==
    (Simulated /\ mc[1].n >= 1) =>
        LET len == Len(performance.returns.index)
        IN /\ Len(mc[1].all_simulations) = mc[1].n
           /\ Len(mc[1].sim_returns.cols) = mc[1].n
           /\ \A i \in DOMAIN mc[1].all_simulations :
                /\ mc[1].all_simulations[i].index = performance.returns.index
                /\ Len(mc[1].all_simulations[i].values) = len
           /\ mc[1].returns = Aggregate
           /\ Len(mc[1].cum_sim_returns.cols) = mc[1].n
           /\ \A i \in DOMAIN mc[1].cum_sim_returns.cols :
                Len(mc[1].cum_sim_returns.cols[i]) = len + 1
           /\ Len(mc[1].cum_returns.values) = len + 1
           /\ Len(mc[1].cum_returns.index) = len + 1

\* Two simulations of a three-day, two-column table, neither of them the
\* reference series.
C3_Witness ==
    /\ Simulated /\ mc[1].n = 2 /\ ~mc[1].preaggregate
    /\ Len(performance.returns.index) = 3
    /\ Len(performance.returns.cols) = 2
    /\ \A i \in 1..2 : mc[1].all_simulations[i] # mc[1].returns

\* C8: no step changes performance.returns: the simulation rearranges and
\* sums copies.
C8_ReturnsUnchanged ==
    [][performance'.returns = performance.returns]_vars

\* A run without preaggregation that rearranged a column, with the returns
\* table still holding the column as it was.
C8_Witness ==
    /\ Simulated /\ ~mc[1].preaggregate
    /\ \E c \in DOMAIN performance.returns.cols :
         /\ mc[1].shuffled[1].cols[c] # performance.returns.cols[c]
         /\ Multiset(mc[1].shuffled[1].cols[c]) = Multiset(performance.returns.cols[c])

\* The sum of every value of a returns table, over all dates and columns.
Total(df) == SeqSum([c \in DOMAIN df.cols |-> SeqSum(df.cols[c])])

\* C11: in both modes the total is conserved: the sum over all dates of each
\* simulated aggregate series equals the sum over all dates and columns of
\* the original returns, and so does the sum of the reference series.
C11_TotalConserved ==
    Simulated =>
        /\ \A i \in DOMAIN mc[1].all_simulations :
              SeqSum(mc[1].all_simulations[i].values) = Total(performance.returns)
        /\ SeqSum(mc[1].returns.values) = Total(performance.returns)

\* A run without preaggregation on several columns in which a simulated
\* series has other daily values than the aggregate returns, and still the
\* same total.
C11_Witness ==
    /\ Simulated /\ ~mc[1].preaggregate
    /\ Len(performance.returns.cols) > 1
    /\ \E i \in DOMAIN mc[1].all_simulations :
         /\ Multiset(mc[1].all_simulations[i].values) # Multiset(Aggregate.values)
         /\ SeqSum(mc[1].all_simulations[i].values) = Total(performance.returns)

---------------------------------------------------------------------------
(* Tear sheets: properties *)

Done == todo = <<>> /\ calls > 0

Figures == {e[1] : e \in out}

FullCall == call.fn = "create_full_tearsheet"

\* C4: whatever tear sheets are created on an instance, its cache is computed
\* at most once; once filled, a later fill_performance_cache computes nothing
\* and the cached values stay as they are.
C4_CacheFilledOnce ==
    [][/\ performance'.computations <= 1
       /\ agg_performance'.computations <= 1
       /\ Filled(performance) =>
            /\ performance'.cache = performance.cache
            /\ performance'.computations = performance.computations
       /\ (Filled(agg_performance) /\ agg_performance'.id = agg_performance.id) =>
            /\ agg_performance'.cache = agg_performance.cache
            /\ agg_performance'.computations = agg_performance.computations]_vars

\* Two tear sheets created one after the other on the same two instances of
\* a two-column table: each cache was filled by the first and computed once.
C4_Witness ==
    /\ Done /\ calls = 2 /\ agg_performance.id = 0
    /\ Len(performance.returns.cols) = 2
    /\ Filled(performance) /\ performance.computations = 1
    /\ Filled(agg_performance) /\ agg_performance.computations = 1

ExposureFigures ==
    {"Aggregate Exposure", "Net Exposures", "Absolute Exposures",
     "Avg Absolute Exposure (Details)", "Avg Net Exposure (Details)",
     "Normalized CAGR (CAGR/Exposure) (Details)"}

\* C5: nothing is shown of a table that is absent: the PNL total and the PNL
\* bar chart need pnl, the average net exposure needs the net exposures, the
\* average absolute exposure and the normalized CAGR need the absolute
\* exposures, and create_full_tearsheet makes no exposures tear sheet when
\* both exposure tables are absent.
C5_AbsentTableNotShown ==
    /\ performance.pnl = None =>
         /\ <<"Aggregate Performance", "PNL">> \notin out
         /\ "PNL (Details)" \notin Figures
    /\ performance.commissions = None =>
         /\ <<"Aggregate Performance", "Commissions">> \notin out
         /\ "Gross and Net PNL" \notin Figures
         /\ <<"PNL (Details)", "commissions">> \notin out
    /\ performance.net_exposures = None =>
         /\ <<"Aggregate Exposure", "Avg Net Exposure">> \notin out
         /\ "Avg Net Exposure (Details)" \notin Figures
         /\ "Net Exposures" \notin Figures
    /\ performance.abs_exposures = None =>
         /\ <<"Aggregate Exposure", "Avg Absolute Exposure">> \notin out
         /\ <<"Aggregate Exposure", "Normalized CAGR (CAGR/Exposure)">> \notin out
         /\ "Avg Absolute Exposure (Details)" \notin Figures
         /\ "Normalized CAGR (CAGR/Exposure) (Details)" \notin Figures
         /\ "Absolute Exposures" \notin Figures
    /\ (FullCall /\ performance.net_exposures = None
          /\ performance.abs_exposures = None) =>
         /\ Figures \cap ExposureFigures = {}
         /\ \A i \in DOMAIN todo : todo[i].fn # "create_exposures_tearsheet"

\* A finished exposures tear sheet of a two-column table with net exposures
\* and without absolute exposures: the net averages are shown, the absolute
\* ones and the normalized CAGR are not.
C5_Witness ==
    /\ Done /\ call.fn = "create_exposures_tearsheet"
    /\ Len(performance.returns.cols) = 2
    /\ performance.net_exposures # None /\ performance.abs_exposures = None
    /\ <<"Aggregate Exposure", "Avg Net Exposure">> \in out
    /\ "Avg Net Exposure (Details)" \in Figures
    /\ "Avg Absolute Exposure (Details)" \notin Figures

StartsAtOne(cum) ==
    IF IsDataFrame(cum)
    THEN \A c \in DOMAIN cum.cols : cum.cols[c][1].num = cum.cols[c][1].den
    ELSE cum.values[1].num = cum.values[1].den

\* C6: the cumulative series handed to get_cagr for a year starts at 1.0,
\* the year's returns having gone through with_baseline first.
C6_AnnualCagrFromBaseline ==
    \A e \in cagr_inputs :
        /\ StartsAtOne(e[3])
        /\ Len(e[3].index) = Len(YearGroup(The(e[1]).returns, e[2]).index) + 1

\* C7: with the pnl table absent nothing derived from the commissions is
\* shown.
C7_NoCommissionsWithoutPnl ==
    performance.pnl = None =>
        /\ <<"Aggregate Performance", "Commissions">> \notin out
        /\ "Gross and Net PNL" \notin Figures
        /\ <<"PNL (Details)", "commissions">> \notin out
        /\ <<"PNL (Details)", "gross pnl">> \notin out

\* C9: create_full_tearsheet runs the simulation exactly when montecarlo_n
\* is neither None nor 0, with n = montecarlo_n and
\* preaggregate = montecarlo_preaggregate; otherwise no call is made that
\* takes montecarlo_preaggregate and no simulation is run.
C9_MonteCarloIffNonzero ==
    FullCall =>
        LET wanted == Truthy(call.n, call.montecarlo_n_is_none)
        IN /\ ~wanted =>
                /\ mc = <<>>
                /\ "Montecarlo Simulation" \notin Figures
                /\ \A i \in DOMAIN todo : todo[i].fn # "montecarlo_simulate"
           /\ mc # <<>> =>
                /\ wanted
                /\ mc[1].n = call.n
                /\ mc[1].preaggregate = call.preaggregate
           /\ (wanted /\ todo = <<>>) => (mc # <<>> /\ error = None)
           /\ \A i \in DOMAIN todo :
                todo[i].fn = "montecarlo_simulate" =>
                    /\ todo[i].n = call.n
                    /\ todo[i].preaggregate = call.preaggregate

\* A finished create_full_tearsheet with montecarlo_n = 2 and
\* montecarlo_preaggregate = False: two simulations were run without
\* preaggregation.
C9_Witness ==
    /\ Done /\ FullCall /\ call.n = 2 /\ ~call.preaggregate
    /\ mc # <<>> /\ Len(mc[1].all_simulations) = 2 /\ ~mc[1].preaggregate
    /\ "Montecarlo Simulation" \in Figures

\* C10: cagr, sharpe and max_drawdown of an instance are read only once
\* fill_performance_cache has been called on that instance.
C10_ReadOnlyWhenFilled ==
    \A r \in reads : r[2] \in {"cagr", "sharpe", "max_drawdown"} => r[3]

\* The exposures tear sheet as the first call on a two-column table with
\* absolute exposures: the detail instance's cagr is read, after its fill.
C10_Witness ==
    /\ Done /\ calls = 1 /\ call.fn = "create_exposures_tearsheet"
    /\ <<"detail", "cagr", TRUE>> \in reads
    /\ <<"agg", "cagr", TRUE>> \in reads

====
